---- MODULE Spec2Model ----
(***************************************************************************)
(* Model of the memory skill webhook (api.py): the user_sessions table,    *)
(* the /handler and /reset endpoints, the session_scope unit of work, the  *)
(* clean_text normalizer and the similarity score.                         *)
(*                                                                         *)
(* A text is a sequence of characters.  A Python value that may be None is *)
(* None or Str(v).  A request runs to completion before the next starts.   *)
(***************************************************************************)
EXTENDS Integers, Sequences, FiniteSets, TLC

\* ------------------------------------------------------------------ bounds
\* Longest user_message (in characters) a request carries.
MaxLen == 2

\* Longest text (in characters) given to clean_text on its own.
MaxCleanLen == 4

\* Longest user_message (in characters) of the requests served concurrently.
MaxConcLen == 1

\* ----------------------------------------------------------- Python values
None == [py |-> "None"]
Str(s) == [py |-> "str", s |-> s]

\* dict.get(key, default)
Get(data, key, default) == IF key \in DOMAIN data THEN data[key] ELSE default

\* ---------------------------------------------------------------- characters
\* One character of each class the code distinguishes: a lowercase letter, an
\* uppercase letter with a lowercase form, an uppercase letter without one
\* (U+2102 DOUBLE-STRUCK CAPITAL C, which str.lower() leaves as it is), a
\* digit, a punctuation mark, the ASCII space and another whitespace
\* character.
Chars == {"a", "A", "U+2102", "1", ",", " ", "\t"}

isspace(c) == c \in {" ", "\t"}

isalnum(c) == c \in {"a", "A", "U+2102", "1"}

lower_char(c) == IF c = "A" THEN "a" ELSE c

RECURSIVE lower(_)
lower(text) ==
    IF Len(text) = 0 THEN <<>>
    ELSE <<lower_char(Head(text))>> \o lower(Tail(text))

RECURSIVE lstrip(_)
lstrip(text) ==
    IF Len(text) > 0 /\ isspace(Head(text)) THEN lstrip(Tail(text)) ELSE text

RECURSIVE rstrip(_)
rstrip(text) ==
    IF Len(text) > 0 /\ isspace(text[Len(text)])
    THEN rstrip(SubSeq(text, 1, Len(text) - 1))
    ELSE text

\* Mutant: the message is taken as sent, without .strip().
strip_missing(text) == text

\* str.strip()
strip(text) == rstrip(lstrip(text))

\* Length of the first word of a text that starts with a non-space character.
RECURSIVE word_len(_)
word_len(text) ==
    IF Len(text) = 0 \/ isspace(Head(text)) THEN 0
    ELSE 1 + word_len(Tail(text))

\* str.split(): the maximal runs of non-whitespace characters.
RECURSIVE split(_)
split(text) ==
    LET t == lstrip(text)
        n == word_len(t)
    IN  IF Len(t) = 0 THEN <<>>
        ELSE <<SubSeq(t, 1, n)>> \o split(SubSeq(t, n + 1, Len(t)))

\* sep.join(words)
RECURSIVE join(_, _)
join(sep, words) ==
    IF Len(words) = 0 THEN <<>>
    ELSE IF Len(words) = 1 THEN words[1]
    ELSE words[1] \o sep \o join(sep, Tail(words))

\* Mutant: every character is kept.
keep_char_all(e) == TRUE

keep_char(e) == isalnum(e) \/ isspace(e)

\* Mutant: whitespace is collapsed before the other characters are dropped.
clean_text_collapses_first(text) ==
    SelectSeq(join(<<" ">>, split(lower(text))), keep_char)

clean_text(text) == join(<<" ">>, split(SelectSeq(lower(text), keep_char)))

\* ---------------------------------------------------------------- similarity
Max(a, b) == IF a >= b THEN a ELSE b

\* Matching characters of two texts (longest common subsequence).
RECURSIVE matches(_, _)
matches(s1, s2) ==
    IF Len(s1) = 0 \/ Len(s2) = 0 THEN 0
    ELSE IF Head(s1) = Head(s2) THEN 1 + matches(Tail(s1), Tail(s2))
    ELSE Max(matches(Tail(s1), s2), matches(s1, Tail(s2)))

\* int(round(num / den)), rounding a half to the even neighbour.
intr(num, den) ==
    LET q == num \div den
        r == num % den
    IN  IF 2 * r > den \/ (2 * r = den /\ q % 2 = 1) THEN q + 1 ELSE q

\* fuzz.ratio(s1, s2): 100 * 2 * matches / (len(s1) + len(s2)), rounded; equal
\* texts score 100 and an empty text scores 0 against a non-empty one.
ratio(s1, s2) ==
    IF s1 = s2 THEN 100
    ELSE IF Len(s1) = 0 \/ Len(s2) = 0 THEN 0
    ELSE intr(200 * matches(s1, s2), Len(s1) + Len(s2))

\* ------------------------------------------------------------ response texts
\* The endpoints' texts, in translation; the similarity text carries the score,
\* the stored original text and the user's text.
TextPrompt == [msg |-> "Enter text to continue."]

TextSaved == [msg |-> "Original text saved. Now retell it as you remember it."]

TextAlready == [msg |-> "You already entered the original text. Now retell it."]

TextNoOriginal == [msg |-> "Error: original text not found. Enter the text again."]

TextSimilarity(similarity, original_text, user_message) ==
    [msg |-> "Match percentage / Original text / Your text",
     similarity |-> similarity,
     original_text |-> original_text,
     user_message |-> user_message]

TextError == [msg |-> "An error occurred. Try again."]

TextReset == [msg |-> "Data reset. Enter new text."]

TextNotFound == [msg |-> "Session not found. Enter new text."]

ResetButton == [title |-> "Reset", action |-> [type |-> "text", label |-> "Reset"]]

\* Mutant: every response carries the reset button.
jsonify_always_buttons(text) ==
    [response |-> [text |-> text, end_session |-> FALSE],
     buttons |-> <<[title |-> "Reset", action |-> [type |-> "text", label |-> "Reset"]]>>]

\* jsonify({"response": {"text": text, "end_session": False}})
jsonify(text) == [response |-> [text |-> text, end_session |-> FALSE]]

\* Mutant: the similarity result ends the session.
jsonify_buttons_ends_session(text) ==
    [response |-> [text |-> text, end_session |-> TRUE],
     buttons |-> <<ResetButton>>]

\* jsonify({"response": {...}, "buttons": [...]})
jsonify_buttons(text) ==
    [response |-> [text |-> text, end_session |-> FALSE],
     buttons |-> <<ResetButton>>]

\* What the caller receives: the view's JSON, or a server error when the
\* request ended with an exception.
Ok(body) == [status |-> 200, json |-> body]

ServerError == [status |-> 500]

\* ------------------------------------------------------------------ the store
\* Column default of UserSession.state, applied when a row is inserted.
state_default == Str("awaiting_original")

\* UserSession(session_id=session_id): only session_id is given; the other
\* attributes of the new object read as None until the row is inserted.
UserSession(session_id) ==
    [id |-> None, session_id |-> session_id, original_text |-> None, state |-> None]

\* query(UserSession).filter_by(session_id=session_id).first()
first(table, session_id) ==
    LET found == {r \in table : r.session_id = session_id}
    IN  IF found = {} THEN None
        ELSE CHOOSE r \in found : \A q \in found : r.id <= q.id

\* The autoincremented primary key of the next row.
next_id(table) == Cardinality(table) + 1

\* session_id is unique and not nullable.
IntegrityError(table, obj) ==
    \/ obj.session_id = None
    \/ \E r \in table : r.session_id = obj.session_id

\* INSERT of a pending object: the key is assigned and an unset state takes
\* the column default.
insert_row(table, obj) ==
    [obj EXCEPT !.id = next_id(table),
                !.state = IF obj.state = None THEN state_default ELSE obj.state]

\* Mutant: the UPDATE lacks its key predicate and writes every row.
update_rows_all(table, dirty) ==
    {IF dirty # {}
     THEN [(CHOOSE d \in dirty : TRUE) EXCEPT !.id = r.id, !.session_id = r.session_id]
     ELSE r : r \in table}

\* Mutant: the changed rows are deleted in place of being updated.
update_rows_deletes(table, dirty) ==
    {r \in table : ~\E d \in dirty : d.id = r.id /\ d # r}

\* UPDATE of the rows whose objects were changed.
update_rows(table, dirty) ==
    {IF \E d \in dirty : d.id = r.id THEN CHOOSE d \in dirty : d.id = r.id ELSE r :
        r \in table}

\* Mutant: close() is called after the commit only, not in a finally clause.
scope_exit_close_in_try(table, flushed, result, failed) ==
    IF failed
    THEN [user_sessions |-> table,
          response |-> ServerError,
          calls |-> <<"commit raised", "rollback">>]
    ELSE [user_sessions |-> flushed,
          response |-> Ok(result),
          calls |-> <<"commit", "close">>]

\* Mutant: the except clause rolls back and does not re-raise.
scope_exit_swallows(table, flushed, result, failed) ==
    IF failed
    THEN [user_sessions |-> table,
          response |-> Ok(result),
          calls |-> <<"commit raised", "rollback", "close">>]
    ELSE [user_sessions |-> flushed,
          response |-> Ok(result),
          calls |-> <<"commit", "close">>]

\* The end of session_scope(): session.commit() makes the flushed rows the
\* table and the block's result is returned; when it raises, rollback()
\* leaves the table as it was and the exception propagates.  close() is
\* called either way.
scope_exit(table, flushed, result, failed) ==
    IF failed
    THEN [user_sessions |-> table,
          response |-> ServerError,
          calls |-> <<"commit raised", "rollback", "close">>]
    ELSE [user_sessions |-> flushed,
          response |-> Ok(result),
          calls |-> <<"commit", "close">>]

\* Mutant: the new object is never added to the session, so no row is inserted.
session_scope_without_add(table, new, dirty, result) ==
    [user_sessions |-> update_rows(table, dirty),
     response |-> Ok(result),
     calls |-> <<"Session", "query">>
               \o (IF update_rows(table, dirty) # table THEN <<"UPDATE">> ELSE <<>>)
               \o <<"commit", "close">>]

\* session_scope(): the calls made on the database session and their outcome,
\* for a request that runs alone.  The block queried once, added the objects
\* in new and assigned to the loaded objects in dirty.
session_scope(table, new, dirty, result) ==
    LET updated == update_rows(table, dirty)
        block == <<"Session", "query">> \o [i \in 1..Cardinality(new) |-> "add"]
        dml == (IF updated # table THEN <<"UPDATE">> ELSE <<>>)
               \o [i \in 1..Cardinality(new) |-> "INSERT"]
        exit == scope_exit(table,
                           updated \cup {insert_row(updated, obj) : obj \in new},
                           result,
                           \E obj \in new : IntegrityError(updated, obj))
    IN  [user_sessions |-> exit.user_sessions,
         response |-> exit.response,
         calls |-> block \o dml \o exit.calls]

\* Python truth value of an optional text.
truthy(v) == v # None /\ Len(v.s) > 0

\* Mutant: the cleaned text is stored in place of the message.
save_original_cleaned(session, user_message) ==
    [session EXCEPT !.original_text = Str(clean_text(user_message)),
                    !.state = Str("awaiting_user_input")]

\* ------------------------------------------------------------------ /handler
\* session.original_text = user_message; session.state = "awaiting_user_input"
save_original(session, user_message) ==
    [session EXCEPT !.original_text = Str(user_message),
                    !.state = Str("awaiting_user_input")]

\* The branch of state "awaiting_original": the session as the block leaves it
\* and the JSON it returns.
awaiting_original(session, user_message) ==
    IF ~truthy(session.original_text)
    THEN [session |-> save_original(session, user_message),
          result |-> jsonify(TextSaved)]
    ELSE [session |-> session, result |-> jsonify(TextAlready)]

\* The similarity result: both texts cleaned and scored, and reported as they
\* are.
compare(original_text, user_message) ==
    LET original_clean == clean_text(original_text)
        user_clean == clean_text(user_message)
        similarity == ratio(original_clean, user_clean)
    IN  jsonify_buttons(TextSimilarity(similarity, original_text, user_message))

\* Mutant: the retelling is kept as the new original text.
awaiting_user_input_overwrites(session, user_message) ==
    IF ~truthy(session.original_text)
    THEN [session |-> session, result |-> jsonify(TextNoOriginal)]
    ELSE [session |-> [session EXCEPT !.original_text = Str(user_message)],
          result |-> compare(session.original_text.s, user_message)]

\* The branch of state "awaiting_user_input".
awaiting_user_input(session, user_message) ==
    IF ~truthy(session.original_text)
    THEN [session |-> session, result |-> jsonify(TextNoOriginal)]
    ELSE [session |-> session,
          result |-> compare(session.original_text.s, user_message)]

handle_state(session, user_message) ==
    IF session.state = Str("awaiting_original")
    THEN awaiting_original(session, user_message)
    ELSE IF session.state = Str("awaiting_user_input")
    THEN awaiting_user_input(session, user_message)
    ELSE [session |-> session, result |-> jsonify(TextError)]

handler(table, data) ==
    LET user_message == strip(Get(data, "user_message", Str(<<>>)).s)
        session_id == Get(data, "session_id", None)
        found == first(table, session_id)
        session == IF found = None THEN UserSession(session_id) ELSE found
        out == handle_state(session, user_message)
    IN  IF Len(user_message) = 0
        THEN [user_sessions |-> table,
              response |-> Ok(jsonify(TextPrompt)),
              calls |-> <<>>]
        ELSE IF found = None
        THEN session_scope(table, {out.session}, {}, out.result)
        ELSE session_scope(table, {}, {out.session}, out.result)

\* Mutant: the reset clears the text and leaves the state as it was.
reset_session_keeps_state(session) ==
    [session EXCEPT !.original_text = None]

\* Mutant: the reset restores the state and leaves the text in place.
reset_session_keeps_text(session) ==
    [session EXCEPT !.state = Str("awaiting_original")]

\* -------------------------------------------------------------------- /reset
\* session.original_text = None; session.state = 'awaiting_original'
reset_session(session) ==
    [session EXCEPT !.original_text = None, !.state = Str("awaiting_original")]

\* Mutant: /reset creates the session it did not find, as /handler does.
reset_creates_on_miss(table, data) ==
    LET session_id == Get(data, "session_id", None)
        session == first(table, session_id)
    IN  IF session # None
        THEN session_scope(table, {}, {reset_session(session)}, jsonify(TextReset))
        ELSE session_scope(table, {UserSession(session_id)}, {}, jsonify(TextNotFound))


reset(table, data) ==
    LET session_id == Get(data, "session_id", None)
        session == first(table, session_id)
    IN  IF session # None
        THEN session_scope(table, {}, {reset_session(session)}, jsonify(TextReset))
        ELSE session_scope(table, {}, {}, jsonify(TextNotFound))

\* ------------------------------------------- requests served at the same time
\* The block of handler() up to the end of the with statement, for a message
\* that is not empty: what the query loaded, the object as the block left it
\* (the new one on a miss), the value the view returns once the commit is
\* through, and the calls made so far.
handler_block(table, data) ==
    LET user_message == strip(Get(data, "user_message", Str(<<>>)).s)
        session_id == Get(data, "session_id", None)
        found == first(table, session_id)
        session == IF found = None THEN UserSession(session_id) ELSE found
        out == handle_state(session, user_message)
    IN  [loaded |-> found,
         session |-> out.session,
         result |-> out.result,
         calls |-> <<"Session", "query">> \o (IF found = None THEN <<"add">> ELSE <<>>)]

\* The block of reset() up to the end of the with statement.
reset_block(table, data) ==
    LET session == first(table, Get(data, "session_id", None))
    IN  IF session # None
        THEN [loaded |-> session,
              session |-> reset_session(session),
              result |-> jsonify(TextReset),
              calls |-> <<"Session", "query">>]
        ELSE [loaded |-> None,
              session |-> None,
              result |-> jsonify(TextNotFound),
              calls |-> <<"Session", "query">>]

\* The attributes of a loaded object that the block gave another value.
changed(loaded, obj) == {c \in {"original_text", "state"} : obj[c] # loaded[c]}

\* Mutant: the UPDATE sets original_text only.
update_changed_text_only(table, loaded, obj) ==
    {IF r.id = loaded.id
     THEN [r EXCEPT !.original_text = IF "original_text" \in changed(loaded, obj)
                                      THEN obj.original_text ELSE @]
     ELSE r : r \in table}

\* UPDATE user_sessions SET <the changed attributes> WHERE id = <loaded.id>,
\* on the table as it is when the commit flushes.
update_changed(table, loaded, obj) ==
    {IF r.id = loaded.id
     THEN [r EXCEPT !.original_text = IF "original_text" \in changed(loaded, obj)
                                      THEN obj.original_text ELSE @,
                    !.state = IF "state" \in changed(loaded, obj)
                              THEN obj.state ELSE @]
     ELSE r : r \in table}

\* Mutant: session_id carries no unique constraint.
flush_not_unique(table, loaded, obj) ==
    IF obj = None
    THEN [user_sessions |-> table, dml |-> <<>>, raised |-> FALSE]
    ELSE IF loaded = None
    THEN IF obj.session_id = None
         THEN [user_sessions |-> table, dml |-> <<"INSERT">>, raised |-> TRUE]
         ELSE [user_sessions |-> table \cup {insert_row(table, obj)},
               dml |-> <<"INSERT">>, raised |-> FALSE]
    ELSE IF changed(loaded, obj) = {}
    THEN [user_sessions |-> table, dml |-> <<>>, raised |-> FALSE]
    ELSE [user_sessions |-> update_changed(table, loaded, obj),
          dml |-> <<"UPDATE">>, raised |-> FALSE]

\* The flush session.commit() starts with: the INSERT of the added object, or
\* the UPDATE of the loaded one when an attribute changed, against the table
\* as the other requests have left it by now.
flush(table, loaded, obj) ==
    IF obj = None
    THEN [user_sessions |-> table, dml |-> <<>>, raised |-> FALSE]
    ELSE IF loaded = None
    THEN IF IntegrityError(table, obj)
         THEN [user_sessions |-> table, dml |-> <<"INSERT">>, raised |-> TRUE]
         ELSE [user_sessions |-> table \cup {insert_row(table, obj)},
               dml |-> <<"INSERT">>, raised |-> FALSE]
    ELSE IF changed(loaded, obj) = {}
    THEN [user_sessions |-> table, dml |-> <<>>, raised |-> FALSE]
    ELSE [user_sessions |-> update_changed(table, loaded, obj),
          dml |-> <<"UPDATE">>, raised |-> FALSE]

\* ------------------------------------------------------------------ requests
SessionIds == {"s1", "s2"}

\* The characters of the messages sent.
MsgChars == {"A", ",", " "}

\* Every text of at most MaxLen characters.
Texts == UNION {[1..n -> MsgChars] : n \in 0..MaxLen}

\* A JSON body with the keys K.
json(K, user_message, session_id) ==
    [k \in K |-> IF k = "user_message" THEN Str(user_message) ELSE Str(session_id)]

\* The bodies sent to /handler: any text for any session, and bodies that lack
\* either key.
HandlerData ==
    {json({"user_message", "session_id"}, m, s) : m \in Texts, s \in SessionIds}
    \cup {json({"user_message"}, m, "") : m \in Texts}
    \cup {json({"session_id"}, <<>>, s) : s \in SessionIds}
    \cup {json({}, <<>>, "")}

ResetData ==
    {json({"session_id"}, <<>>, s) : s \in SessionIds} \cup {json({}, <<>>, "")}

\* The requests served at the same time: they name one session or none.
Workers == {"w1", "w2"}

ConcSessionIds == {"s1"}

ConcTexts == UNION {[1..n -> MsgChars] : n \in 0..MaxConcLen}

ConcHandlerData ==
    {json({"user_message", "session_id"}, m, s) : m \in ConcTexts, s \in ConcSessionIds}
    \cup {json({"user_message"}, m, "") : m \in ConcTexts}

ConcResetData ==
    {json({"session_id"}, <<>>, s) : s \in ConcSessionIds} \cup {json({}, <<>>, "")}

\* ---------------------------------------------------------------------- state
VARIABLES
    user_sessions,         \* the rows of table user_sessions
    user_sessions_before,  \* the rows when the request served last arrived
    request,               \* the request served last
    response,              \* what its caller received
    unit_of_work,          \* the calls it made on its database session, in order
    clean_in,              \* a text given to clean_text
    clean_out,             \* clean_text(clean_in), once computed
    clean_twice,           \* clean_text of that result, once computed
    workers                \* the requests being served at the same time

vars == <<user_sessions, user_sessions_before, request, response, unit_of_work,
          clean_in, clean_out, clean_twice, workers>>

cleaner_vars == <<clean_in, clean_out, clean_twice>>

server_vars == <<user_sessions, user_sessions_before, request, response, unit_of_work,
                 workers>>

sequential_vars == <<user_sessions_before, request, response, unit_of_work>>

NoRequest == [route |-> "none"]

NoResponse == [status |-> 0]

\* A worker between requests, with what its last request ended in.  Of a
\* request the worker keeps the route and the session_id.
Idle(route, session_id, resp, calls) ==
    [pc |-> "idle", route |-> route, session_id |-> session_id,
     response |-> resp, calls |-> calls]

\* A worker inside the with block, the commit still ahead.
InBlock(route, session_id, b) ==
    [pc |-> "in_block", route |-> route, session_id |-> session_id,
     loaded |-> b.loaded, session |-> b.session, result |-> b.result,
     calls |-> b.calls]

\* The server after start-up: the table is created empty.
InitServer ==
    /\ user_sessions = {}
    /\ user_sessions_before = {}
    /\ request = NoRequest
    /\ response = NoResponse
    /\ unit_of_work = <<>>
    /\ workers = [w \in Workers |-> Idle("none", None, NoResponse, <<>>)]

Init ==
    /\ InitServer
    /\ clean_in = <<>>
    /\ clean_out = None
    /\ clean_twice = None

Handler ==
    \E data \in HandlerData :
        \E out \in {handler(user_sessions, data)} :
            /\ request' = [route |-> "/handler", json |-> data]
            /\ user_sessions_before' = user_sessions
            /\ user_sessions' = out.user_sessions
            /\ response' = out.response
            /\ unit_of_work' = out.calls
            /\ UNCHANGED <<cleaner_vars, workers>>

Reset ==
    \E data \in ResetData :
        \E out \in {reset(user_sessions, data)} :
            /\ request' = [route |-> "/reset", json |-> data]
            /\ user_sessions_before' = user_sessions
            /\ user_sessions' = out.user_sessions
            /\ response' = out.response
            /\ unit_of_work' = out.calls
            /\ UNCHANGED <<cleaner_vars, workers>>

Next == Handler \/ Reset

Spec == Init /\ [][Next]_vars

\* ------------------------------------------------------- clean_text on its own
\* Every text of at most MaxCleanLen characters.
CleanInputs == UNION {[1..n -> Chars] : n \in 0..MaxCleanLen}

InitClean ==
    /\ InitServer
    /\ clean_in \in CleanInputs
    /\ clean_out = None
    /\ clean_twice = None

\* clean_text(text)
Clean ==
    /\ clean_out = None
    /\ clean_out' = Str(clean_text(clean_in))
    /\ UNCHANGED <<clean_in, clean_twice, server_vars>>

\* clean_text(clean_text(text))
CleanAgain ==
    /\ clean_out # None
    /\ clean_twice = None
    /\ clean_twice' = Str(clean_text(clean_out.s))
    /\ UNCHANGED <<clean_in, clean_out, server_vars>>

NextClean == Clean \/ CleanAgain

SpecClean == InitClean /\ [][NextClean]_vars

\* ------------------------------------------------- requests at the same time
\* Each worker serves one request at a time.  A request queries inside its
\* database session, and its commit comes later: the other worker's steps may
\* fall in between.

\* handler() answers an empty message before it opens a database session.
Prompt(w) ==
    \E data \in ConcHandlerData :
        /\ workers[w].pc = "idle"
        /\ strip(Get(data, "user_message", Str(<<>>)).s) = <<>>
        /\ workers' = [workers EXCEPT ![w] = Idle("/handler", Get(data, "session_id", None),
                                                 Ok(jsonify(TextPrompt)), <<>>)]
        /\ UNCHANGED <<user_sessions, sequential_vars, cleaner_vars>>

\* The with block of handler(): query, add on a miss, assignments.
HandlerBlock(w) ==
    \E data \in ConcHandlerData :
        /\ workers[w].pc = "idle"
        /\ strip(Get(data, "user_message", Str(<<>>)).s) # <<>>
        /\ \E b \in {handler_block(user_sessions, data)} :
               workers' = [workers EXCEPT ![w] =
                   InBlock("/handler", Get(data, "session_id", None), b)]
        /\ UNCHANGED <<user_sessions, sequential_vars, cleaner_vars>>

\* The with block of reset(): query, assignments on a hit.
ResetBlock(w) ==
    \E data \in ConcResetData :
        /\ workers[w].pc = "idle"
        /\ \E b \in {reset_block(user_sessions, data)} :
               workers' = [workers EXCEPT ![w] =
                   InBlock("/reset", Get(data, "session_id", None), b)]
        /\ UNCHANGED <<user_sessions, sequential_vars, cleaner_vars>>

\* The store fails under the query: the exception leaves the with block
\* through rollback() and close().
QueryRaises(w) ==
    \E req \in {[route |-> "/handler", json |-> data] : data \in ConcHandlerData}
               \cup {[route |-> "/reset", json |-> data] : data \in ConcResetData} :
        /\ workers[w].pc = "idle"
        /\ req.route = "/handler" => strip(Get(req.json, "user_message", Str(<<>>)).s) # <<>>
        /\ workers' = [workers EXCEPT ![w] =
               Idle(req.route, Get(req.json, "session_id", None), ServerError,
                    <<"Session", "query raised", "rollback", "close">>)]
        /\ UNCHANGED <<user_sessions, sequential_vars, cleaner_vars>>

\* The end of the with block: flush, commit or rollback, close.  The commit
\* raises when the flush did, or when the store fails under it.
Commit(w) ==
    /\ workers[w].pc = "in_block"
    /\ \E store_fails \in BOOLEAN :
       \E f \in {flush(user_sessions, workers[w].loaded, workers[w].session)} :
       \E exit \in {scope_exit(user_sessions, f.user_sessions, workers[w].result,
                               f.raised \/ store_fails)} :
           /\ user_sessions' = exit.user_sessions
           /\ workers' = [workers EXCEPT ![w] =
                  Idle(workers[w].route, workers[w].session_id, exit.response,
                       workers[w].calls \o f.dml \o exit.calls)]
    /\ UNCHANGED <<sequential_vars, cleaner_vars>>

NextConc ==
    \E w \in Workers :
        \/ Prompt(w)
        \/ HandlerBlock(w)
        \/ ResetBlock(w)
        \/ QueryRaises(w)
        \/ Commit(w)

SpecConc == Init /\ [][NextConc]_vars

\* ============================================================== properties
\* The session_id and the user_message a request carries, as the endpoints
\* read them.
SessionIdOf(req) == Get(req.json, "session_id", None)

MessageOf(req) == Get(req.json, "user_message", Str(<<>>)).s

\* A text with no character other than whitespace.
Blank(text) == \A i \in 1..Len(text) : isspace(text[i])

\* t is raw without its leading and trailing whitespace.
IsStripOf(t, raw) ==
    \E i, j \in 0..Len(raw) :
        /\ i + j <= Len(raw)
        /\ t = SubSeq(raw, i + 1, Len(raw) - j)
        /\ Blank(SubSeq(raw, 1, i))
        /\ Blank(SubSeq(raw, Len(raw) - j + 1, Len(raw)))
        /\ Len(t) > 0 => ~isspace(t[1]) /\ ~isspace(t[Len(t)])

\* The rows stored for a session_id.
RowsOf(table, session_id) == {r \in table : r.session_id = session_id}

AwaitingOriginal == Str("awaiting_original")

AwaitingUserInput == Str("awaiting_user_input")

\* The row of a session is awaiting the retelling of a stored text.
HoldsText(table, session_id) ==
    \E r \in RowsOf(table, session_id) :
        r.state = AwaitingUserInput /\ r.original_text # None

\* The row of a session exists, with no text, awaiting the original.
Cleared(table, session_id) ==
    /\ RowsOf(table, session_id) # {}
    /\ \A r \in RowsOf(table, session_id) :
            r.original_text = None /\ r.state = AwaitingOriginal

\* The row of a session holds exactly the stripped message of the request.
Stored(table, req) ==
    /\ RowsOf(table, SessionIdOf(req)) # {}
    /\ \A r \in RowsOf(table, SessionIdOf(req)) :
            /\ r.original_text # None
            /\ IsStripOf(r.original_text.s, MessageOf(req))
            /\ r.state = AwaitingUserInput

\* A response that carries a buttons field.
HasButtons(resp) == resp.status = 200 /\ "buttons" \in DOMAIN resp.json

\* The request served created its session: the block added a new object.
Added(calls) == \E i \in 1..Len(calls) : calls[i] = "add"

\* C1: after any sequence of /handler and /reset requests, every stored row
\* has original_text set if and only if its state is awaiting_user_input.
C1_OriginalTextIffAwaitingInput ==
    \A r \in user_sessions :
        (r.original_text # None) <=> (r.state = AwaitingUserInput)

\* C1 witness: a row holding a text and a row that a /reset just cleared.
C1_Witness ==
    /\ request.route = "/reset"
    /\ response = Ok(jsonify(TextReset))
    /\ \E r \in user_sessions : r.original_text # None
    /\ \E r \in user_sessions : r.original_text = None

\* C2: the first /handler request for a session_id without a row, with a
\* message that is not blank, stores the stripped message as original_text,
\* leaves the session in awaiting_user_input and answers with the "saved"
\* text and no buttons.
C2_FirstHandlerSaves ==
    (/\ request.route = "/handler"
     /\ ~Blank(MessageOf(request))
     /\ SessionIdOf(request) # None
     /\ RowsOf(user_sessions_before, SessionIdOf(request)) = {})
    => (/\ response = Ok(jsonify(TextSaved))
        /\ Stored(user_sessions, request))

\* C3: /reset on a session that has a row, whatever its state, leaves the
\* row with original_text unset and state awaiting_original and answers with
\* the reset text; a /handler request with a non-blank message for a session
\* left so stores the message, moves to awaiting_user_input and answers
\* "saved".
C3_ResetThenFirstTimeEntry ==
    /\ (/\ request.route = "/reset"
        /\ RowsOf(user_sessions_before, SessionIdOf(request)) # {})
       => (/\ response = Ok(jsonify(TextReset))
           /\ Cleared(user_sessions, SessionIdOf(request)))
    /\ (/\ request.route = "/handler"
        /\ ~Blank(MessageOf(request))
        /\ Cleared(user_sessions_before, SessionIdOf(request)))
       => (/\ response = Ok(jsonify(TextSaved))
           /\ Stored(user_sessions, request))

\* C3 witness: a /reset has cleared a session that held a text.
C3_Witness ==
    /\ request.route = "/reset"
    /\ response = Ok(jsonify(TextReset))
    /\ HoldsText(user_sessions_before, SessionIdOf(request))
    /\ Cleared(user_sessions, SessionIdOf(request))

\* C4: /reset for a session_id without a row answers "session not found" and
\* leaves the set of stored rows as it was.
C4_ResetOnMissCreatesNothing ==
    (/\ request.route = "/reset"
     /\ RowsOf(user_sessions_before, SessionIdOf(request)) = {})
    => (/\ response = Ok(jsonify(TextNotFound))
        /\ user_sessions = user_sessions_before)

\* C4 witness: "session not found" was answered for a named session while
\* another session has a row.
C4_Witness ==
    /\ request.route = "/reset"
    /\ SessionIdOf(request) # None
    /\ response = Ok(jsonify(TextNotFound))
    /\ RowsOf(user_sessions, SessionIdOf(request)) = {}
    /\ user_sessions # {}

\* C5: a /handler request whose user_message is missing, empty or only
\* whitespace answers with the prompt text and no buttons and leaves every
\* row as it was, whether or not the session has a row.
C5_BlankMessageChangesNothing ==
    (/\ request.route = "/handler"
     /\ Blank(MessageOf(request)))
    => (/\ response = Ok(jsonify(TextPrompt))
        /\ ~HasButtons(response)
        /\ user_sessions = user_sessions_before)

\* C5 witness: a whitespace-only message was answered with the prompt for a
\* session whose row holds a text.
C5_Witness ==
    /\ request.route = "/handler"
    /\ Len(MessageOf(request)) > 0
    /\ Blank(MessageOf(request))
    /\ response = Ok(jsonify(TextPrompt))
    /\ HoldsText(user_sessions, SessionIdOf(request))

\* C6: two consecutive /handler requests with the same non-blank message,
\* the first for a session_id without a row: the second answers with a
\* similarity of 100 and exactly one button; and every similarity result for
\* texts whose cleaned forms are equal reports 100.
C6_SecondCallScores100 ==
    [][/\ (/\ request.route = "/handler"
           /\ SessionIdOf(request) # None
           /\ ~Blank(MessageOf(request))
           /\ Added(unit_of_work)
           /\ request' = request)
          => (/\ HasButtons(response')
              /\ Len(response'.json.buttons) = 1
              /\ response'.json.response.text.similarity = 100)
       /\ (/\ HasButtons(response')
           /\ clean_text(response'.json.response.text.original_text)
                = clean_text(response'.json.response.text.user_message))
          => response'.json.response.text.similarity = 100]_vars

\* C7: a /handler request for a session in awaiting_user_input with its
\* original_text set leaves every row of the store as it was.
C7_RetellingChangesNothing ==
    (/\ request.route = "/handler"
     /\ HoldsText(user_sessions_before, SessionIdOf(request)))
    => user_sessions = user_sessions_before

\* C7 witness: a retelling that differs from the original was scored while
\* two sessions have rows.
C7_Witness ==
    /\ request.route = "/handler"
    /\ HoldsText(user_sessions_before, SessionIdOf(request))
    /\ HasButtons(response)
    /\ response.json.response.text.user_message
         # response.json.response.text.original_text
    /\ Cardinality(user_sessions) = 2

\* C8: a row's original_text, once set, keeps its value and its row through
\* every /handler request; it changes only by a /reset for that row's
\* session_id, which clears it.
C8_OriginalTextSetOncePerCycle ==
    \A r \in user_sessions_before :
        r.original_text # None =>
            \E q \in user_sessions :
                /\ q.id = r.id
                /\ q.session_id = r.session_id
                /\ \/ q.original_text = r.original_text
                   \/ /\ request.route = "/reset"
                      /\ SessionIdOf(request) = r.session_id
                      /\ q.original_text = None

\* C8 witness: a /handler request set the text of a session whose row had
\* none, while the other session keeps the text it held.
C8_Witness ==
    /\ request.route = "/handler"
    /\ Cleared(user_sessions_before, SessionIdOf(request))
    /\ HoldsText(user_sessions, SessionIdOf(request))
    /\ \E r \in user_sessions_before :
            /\ r.session_id # SessionIdOf(request)
            /\ r.original_text # None
            /\ r \in user_sessions

\* C9: a text newly stored as original_text is the request's message without
\* its leading and trailing whitespace, not its cleaned form; a similarity
\* result reports the stored original text and the stripped retelling as
\* they are, and the score of their cleaned forms.
C9_OriginalKeptVerbatim ==
    /\ \A q \in user_sessions :
            (q.original_text # None /\ q \notin user_sessions_before)
            => (/\ request.route = "/handler"
                /\ q.session_id = SessionIdOf(request)
                /\ IsStripOf(q.original_text.s, MessageOf(request)))
    /\ HasButtons(response)
       => (/\ request.route = "/handler"
           /\ \E r \in RowsOf(user_sessions_before, SessionIdOf(request)) :
                /\ r.original_text # None
                /\ response.json.response.text.original_text = r.original_text.s
           /\ IsStripOf(response.json.response.text.user_message,
                        MessageOf(request))
           /\ response.json.response.text.similarity =
                ratio(clean_text(response.json.response.text.original_text),
                      clean_text(response.json.response.text.user_message)))

\* C9 witness: a similarity result for a stored text that differs from its
\* cleaned form and a retelling that was sent with whitespace around it.
C9_Witness ==
    /\ request.route = "/handler"
    /\ HasButtons(response)
    /\ response.json.response.text.original_text
         # clean_text(response.json.response.text.original_text)
    /\ response.json.response.text.user_message # MessageOf(request)
    /\ \E r \in RowsOf(user_sessions, SessionIdOf(request)) :
            r.original_text = Str(response.json.response.text.original_text)

\* C10: a response carries buttons exactly when it answers a /handler request
\* with a non-blank message for a session that was in awaiting_user_input
\* with its original_text set; no other response of either endpoint does.
C10_ButtonsOnlyOnSimilarity ==
    HasButtons(response)
    <=> (/\ request.route = "/handler"
         /\ ~Blank(MessageOf(request))
         /\ HoldsText(user_sessions_before, SessionIdOf(request)))

\* C10 witness: a response with the one reset button.
C10_Witness ==
    /\ HasButtons(response)
    /\ response.json.buttons = <<ResetButton>>
    /\ response.json.response.text.similarity < 100

\* The primary keys of a table's rows.
Ids(table) == {r.id : r \in table}

\* C11: after a /handler request with a non-blank message and a session_id
\* that completed with a response, a row for that session_id exists,
\* whichever branch answered; a /reset request adds no row.
C11_HandlerCreatesOnMiss ==
    /\ (/\ request.route = "/handler"
        /\ ~Blank(MessageOf(request))
        /\ SessionIdOf(request) # None
        /\ response.status = 200)
       => RowsOf(user_sessions, SessionIdOf(request)) # {}
    /\ request.route = "/reset" => Ids(user_sessions) \subseteq Ids(user_sessions_before)

\* C11 witness: a /handler request for a session without a row completed and
\* left a row for it.
C11_Witness ==
    /\ request.route = "/handler"
    /\ response.status = 200
    /\ RowsOf(user_sessions_before, SessionIdOf(request)) = {}
    /\ RowsOf(user_sessions, SessionIdOf(request)) # {}

\* C12: every row that existed when a request arrived exists after it with
\* the same session_id, so the set of stored session ids only grows.
C12_RowsNeverDeleted ==
    /\ \A r \in user_sessions_before :
            \E q \in user_sessions : q.id = r.id /\ q.session_id = r.session_id
    /\ {r.session_id : r \in user_sessions_before}
            \subseteq {r.session_id : r \in user_sessions}

\* C12 witness: a /reset rewrote one of two rows and both are still there.
C12_Witness ==
    /\ request.route = "/reset"
    /\ user_sessions # user_sessions_before
    /\ Cardinality(user_sessions_before) = 2
    /\ Cardinality(user_sessions) = 2

\* C15: every response of /handler and /reset has end_session false.
C15_NeverEndsSession ==
    response.status = 200 => response.json.response.end_session = FALSE

\* C15 witness: a similarity result, which does not end the session.
C15_Witness ==
    /\ request.route = "/handler"
    /\ HasButtons(response)
    /\ response.json.response.end_session = FALSE

\* C16: the unknown-state branch of /handler is never taken, also for a
\* session created by the request: no /handler request is answered with the
\* generic error text.
C16_UnknownStateUnreachable ==
    request.route = "/handler" => response # Ok(jsonify(TextError))

\* ------------------------------------------------------ clean_text (SpecClean)
\* str.isupper() of one character.
isupper(c) == c \in {"A", "U+2102"}

\* The positions of a text whose characters clean_text keeps as letters or
\* digits, and the positions of a result that hold no space.
AlnumAt(text) == {i \in 1..Len(text) : isalnum(lower_char(text[i]))}

NonSpaceAt(text) == {i \in 1..Len(text) : text[i] # " "}

\* The j-th smallest member of a set of positions.
Nth(S, j) == CHOOSE i \in S : Cardinality({m \in S : m <= i}) = j

\* out is text lowercased, without the characters that are neither
\* alphanumeric nor whitespace, with one ASCII space for every run of
\* whitespace between two kept characters and none at either end.
IsCleanOf(out, text) ==
    LET K == AlnumAt(text)
        J == NonSpaceAt(out)
    IN  /\ Cardinality(J) = Cardinality(K)
        /\ \A j \in 1..Cardinality(K) : out[Nth(J, j)] = lower_char(text[Nth(K, j)])
        /\ Len(out) > 0 => 1 \in J /\ Len(out) \in J
        /\ \A j \in 1..(Cardinality(K) - 1) :
              /\ Nth(J, j + 1) - Nth(J, j) \in {1, 2}
              /\ (Nth(J, j + 1) - Nth(J, j) = 2)
                 <=> \E m \in (Nth(K, j) + 1)..(Nth(K, j + 1) - 1) : isspace(text[m])

\* A text with no punctuation and no whitespace other than single ASCII
\* spaces between its words.
NoPunctuationNoRuns(out) ==
    /\ \A i \in 1..Len(out) : out[i] = " " \/ isalnum(out[i])
    /\ \A i \in 1..(Len(out) - 1) : ~(out[i] = " " /\ out[i + 1] = " ")

\* "Hello, World!" in the model's characters, and "hello world".
HelloWorld == <<"A", "a", "a", ",", " ", "A", "a", "1", ",">>

hello_world == <<"a", "a", "a", " ", "a", "a", "1">>

\* C13: clean_text is idempotent: clean_text(clean_text(s)) = clean_text(s).
C13_CleanTextIdempotent ==
    clean_twice # None => clean_twice = clean_out

\* C13 witness: a text that cleaning changed was cleaned twice.
C13_Witness ==
    /\ clean_twice # None
    /\ clean_out.s # clean_in
    /\ Len(clean_out.s) > 1

\* C14 as stated: the result of clean_text is the lowercased input without
\* the characters that are neither alphanumeric nor whitespace, with every
\* run of whitespace replaced by one ASCII space and none at either end; it
\* never contains punctuation, two adjacent spaces or an uppercase letter.
C14_CleanTextResult ==
    /\ clean_text(HelloWorld) = hello_world
    /\ clean_out # None
       => (/\ IsCleanOf(clean_out.s, clean_in)
           /\ NoPunctuationNoRuns(clean_out.s)
           /\ \A i \in 1..Len(clean_out.s) : ~isupper(clean_out.s[i]))

\* C14 amended: as C14, but the result never contains a letter that
\* lowercasing changes; an uppercase letter without a lowercase form stays.
C14_CleanTextResultAmended ==
    /\ clean_text(HelloWorld) = hello_world
    /\ clean_out # None
       => (/\ IsCleanOf(clean_out.s, clean_in)
           /\ NoPunctuationNoRuns(clean_out.s)
           /\ \A i \in 1..Len(clean_out.s) :
                 lower_char(clean_out.s[i]) = clean_out.s[i])

\* C14 witness: a text with an uppercase letter, punctuation and a run of
\* whitespace was cleaned to the one lowercase letter.
C14_Witness ==
    /\ clean_out # None
    /\ \E i \in 1..Len(clean_in) : clean_in[i] = "A"
    /\ \E i \in 1..Len(clean_in) : clean_in[i] = ","
    /\ \E i \in 1..(Len(clean_in) - 1) : isspace(clean_in[i]) /\ isspace(clean_in[i + 1])
    /\ clean_out.s = <<"a">>

\* --------------------------------------------------- requests at the same time
\* How many of the calls are among the names in S.
Count(calls, S) == Cardinality({i \in 1..Len(calls) : calls[i] \in S})

Raised(calls) == Count(calls, {"query raised", "commit raised"}) > 0

\* One unit of work from Session() to close(): at most one read and one
\* write, committed when nothing raised and rolled back when something did.
UnitOfWorkDone(calls) ==
    /\ calls[1] = "Session"
    /\ Count(calls, {"Session"}) = 1
    /\ Count(calls, {"query", "query raised"}) <= 1
    /\ Count(calls, {"INSERT", "UPDATE"}) <= 1
    /\ Count(calls, {"commit"}) + Count(calls, {"rollback"}) = 1
    /\ Count(calls, {"rollback"}) = 1 <=> Raised(calls)
    /\ Count(calls, {"close"}) = 1
    /\ calls[Len(calls)] = "close"

\* A unit of work that is open: nothing committed, rolled back or closed yet.
UnitOfWorkOpen(calls) ==
    /\ calls[1] = "Session"
    /\ Count(calls, {"Session"}) = 1
    /\ Count(calls, {"query"}) = 1
    /\ Count(calls, {"INSERT", "UPDATE", "commit", "commit raised", "rollback",
                     "query raised", "close"}) = 0

\* C17: each request that reaches the store uses one unit of work with at
\* most one read and at most one write; the unit of work is committed when
\* nothing failed and rolled back when something did, never both, and it is
\* closed afterwards: no unit of work is open once its request has ended.
C17_UnitOfWorkScoped ==
    \A w \in Workers :
        IF workers[w].pc = "idle"
        THEN workers[w].calls = <<>> \/ UnitOfWorkDone(workers[w].calls)
        ELSE UnitOfWorkOpen(workers[w].calls)

\* C17 witness: one request has ended committed after its write, the other
\* rolled back after its write was refused; both are closed.
C17_Witness ==
    \E w1, w2 \in Workers :
        /\ workers[w1].pc = "idle"
        /\ workers[w1].calls = <<"Session", "query", "UPDATE", "commit", "close">>
        /\ workers[w2].pc = "idle"
        /\ workers[w2].calls =
               <<"Session", "query", "add", "INSERT", "commit raised", "rollback", "close">>

\* The request of worker w ends in this step.
Ends(w) == workers'[w].pc = "idle" /\ workers'[w] # workers[w]

Has(calls, name) == Count(calls, {name}) > 0

\* The row of the object obj holds the text and the state the object has.
Committed(table, obj) ==
    \E r \in table :
        /\ r.id = obj.id
        /\ r.original_text = obj.original_text
        /\ r.state = obj.state

\* C18: when the store fails during a request (under the read, or under the
\* commit, as on a missing or a duplicate session_id), the transaction is
\* rolled back, the rows are as they were and the request ends with the
\* error; a "saved" or "reset" confirmation is delivered only when the
\* change it confirms was committed.
C18_StoreFailureRollsBack ==
    [][\A w \in Workers :
          Ends(w) =>
              /\ Raised(workers'[w].calls) =>
                     /\ user_sessions' = user_sessions
                     /\ Has(workers'[w].calls, "rollback")
                     /\ ~Has(workers'[w].calls, "commit")
                     /\ workers'[w].response = ServerError
              /\ workers'[w].response \in {Ok(jsonify(TextSaved)), Ok(jsonify(TextReset))} =>
                     /\ ~Raised(workers'[w].calls)
                     /\ Has(workers'[w].calls, "commit")
                     /\ changed(workers[w].loaded, workers[w].session) # {}
                            => Committed(user_sessions', workers[w].session)
      ]_vars

\* C18 witness: a /handler request without session_id ended with the error
\* after its INSERT was refused, the other worker's query raised, and the row
\* that was there is still there.
C18_Witness ==
    \E w1, w2 \in Workers :
        /\ workers[w1] = Idle("/handler", None, ServerError,
               <<"Session", "query", "add", "INSERT", "commit raised", "rollback", "close">>)
        /\ workers[w2] = Idle("/reset", Str("s1"), ServerError,
               <<"Session", "query raised", "rollback", "close">>)
        /\ HoldsText(user_sessions, Str("s1"))

\* No two rows carry the same session_id.
UniqueSessionId(table) ==
    \A r, q \in table : r.session_id = q.session_id => r = q

\* Worker w read no row and added an object for session_id.
AddedUnseen(w, session_id) ==
    /\ workers[w].pc = "in_block"
    /\ workers[w].route = "/handler"
    /\ workers[w].loaded = None
    /\ workers[w].session # None
    /\ workers[w].session.session_id = session_id

\* C19: session_id stays unique when requests interleave: of two /handler
\* requests that both read no row for a session_id and both added one, the
\* one that commits after the other's row is in the table fails with a store
\* error and is rolled back; the table never holds two rows with one
\* session_id.
C19_SessionIdUniqueUnderRace ==
    [][/\ UniqueSessionId(user_sessions')
       /\ \A w \in Workers : \A session_id \in {Str(s) : s \in ConcSessionIds} :
              (/\ AddedUnseen(w, session_id)
               /\ RowsOf(user_sessions, session_id) # {}
               /\ Ends(w))
              => /\ workers'[w].response = ServerError
                 /\ Has(workers'[w].calls, "commit raised")
                 /\ Has(workers'[w].calls, "rollback")
                 /\ user_sessions' = user_sessions
      ]_vars

\* C19 witness: both workers read no row for s1 and added one; the first has
\* committed its row, and the second is before its commit with that row in
\* the table.
C19_Witness ==
    \E w1, w2 \in Workers :
        /\ workers[w1] = Idle("/handler", Str("s1"), Ok(jsonify(TextError)),
               <<"Session", "query", "add", "INSERT", "commit", "close">>)
        /\ AddedUnseen(w2, Str("s1"))
        /\ Cardinality(RowsOf(user_sessions, Str("s1"))) = 1

\* Every row holds a text exactly when it awaits the retelling.
TextIffAwaitingInput(table) ==
    \A r \in table :
        /\ r.state \in {AwaitingOriginal, AwaitingUserInput}
        /\ r.original_text # None <=> r.state = AwaitingUserInput

\* The object worker w holds differs from the row it was loaded from, or is new.
Writes(w) ==
    /\ workers[w].pc = "in_block"
    /\ workers[w].session # None
    /\ workers[w].loaded = None \/ changed(workers[w].loaded, workers[w].session) # {}

\* The row of the object worker w holds: the loaded row, or on a miss the row
\* its INSERT makes.
RowOf(table, w) ==
    IF workers[w].loaded = None
    THEN RowsOf(table, workers[w].session.session_id)
    ELSE {r \in table : r.id = workers[w].loaded.id}

\* C20: requests on one session that interleave their reads and commits keep
\* every row with original_text set exactly when state is
\* awaiting_user_input, and a commit that writes leaves in the row the
\* original_text and the state of the request that commits, whatever the row
\* held meanwhile; a step that commits no write leaves the rows alone.
C20_LastWriteWinsWhole ==
    [][/\ TextIffAwaitingInput(user_sessions')
       /\ \A w \in Workers :
              (Writes(w) /\ Ends(w) /\ workers'[w].response.status = 200)
              => \A r \in RowOf(user_sessions', w) :
                     /\ r.original_text = workers[w].session.original_text
                     /\ r.state = IF workers[w].session.state = None
                                  THEN state_default
                                  ELSE workers[w].session.state
       /\ user_sessions' # user_sessions
              => \E w \in Workers :
                     Writes(w) /\ Ends(w) /\ workers'[w].response.status = 200
      ]_vars

\* C20 witness: a /reset request read the row of s1 when it held a text and
\* is before its commit; meanwhile the row was cleared and a /handler request
\* has saved another text into it.
C20_Witness ==
    \E w1, w2 \in Workers :
        /\ workers[w1].pc = "idle"
        /\ workers[w1].route = "/handler"
        /\ workers[w1].response = Ok(jsonify(TextSaved))
        /\ workers[w2].pc = "in_block"
        /\ workers[w2].route = "/reset"
        /\ workers[w2].loaded # None
        /\ workers[w2].loaded.original_text # None
        /\ \E r \in user_sessions :
               /\ r.id = workers[w2].loaded.id
               /\ r.original_text # None
               /\ r.original_text # workers[w2].loaded.original_text

====
